---- MODULE Spec2Model ----
(***************************************************************************)
(* Write-ahead journal of the vsfs image tool (journal.c).                  *)
(*                                                                         *)
(* The image file is modelled byte for byte as a sparse map: a function    *)
(* from the file offsets that hold a non-zero byte to that byte.  Every    *)
(* offset outside the domain reads as 0.  A buffer in memory (a block      *)
(* image, a record) is the same kind of map with offsets relative to the   *)
(* start of the buffer.  pread / pwrite are Slice / Put.                   *)
(***************************************************************************)
EXTENDS Integers, Naturals, Sequences, FiniteSets, TLC

\* ---------------------------------------------------------------- layout
JOURNAL_MAGIC == 1246907980
BLOCK_SIZE == 4096
INODE_SIZE == 128
JOURNAL_BLOCK_IDX == 1
JOURNAL_BLOCKS == 16
INODE_BLOCKS == 2
DATA_BLOCKS == 64
INODE_BMAP_IDX == JOURNAL_BLOCK_IDX + JOURNAL_BLOCKS
DATA_BMAP_IDX == INODE_BMAP_IDX + 1
INODE_START_IDX == DATA_BMAP_IDX + 1
DATA_START_IDX == INODE_START_IDX + INODE_BLOCKS
TOTAL_BLOCKS == DATA_START_IDX + DATA_BLOCKS
REC_DATA == 1
REC_COMMIT == 2

\* sizeof(struct dirent): uint32_t inode + char name[28]
DIRENT_SIZE == 4 + 28
\* offset of name[] inside struct dirent
DIRENT_NAME == 4
\* sizeof(struct journal_header): two uint32_t
JH_SIZE == 4 + 4
\* sizeof(struct rec_header): two uint16_t
RH_SIZE == 2 + 2
\* sizeof(struct data_record): rec_header + block_no + data[4096]
DR_SIZE == RH_SIZE + 4 + BLOCK_SIZE
\* sizeof(struct commit_record)
CR_SIZE == RH_SIZE
\* field offsets of struct inode
INO_TYPE == 0
INO_LINKS == 2
INO_SIZE == 4
INO_DIRECT == 8
INO_CTIME == 40
INO_MTIME == 44
\* the n of strncpy(d[slot].name, file_name, 27)
NAME_COPY == 27
\* blocks logged by one create: the length of targets[] and bufs[]
TX_BLOCKS == 4

\* ------------------------------------------------------------ byte maps
Empty == [a \in {} |-> 0]

Get(b, i) == IF i \in DOMAIN b THEN b[i] ELSE 0

\* byte k (little endian) of the unsigned value v
ByteOf(v, k) == (v \div (256 ^ k)) % 256

U16(b, i) == Get(b, i) + 256 * Get(b, i + 1)

U32(b, i) == Get(b, i) + 256 * Get(b, i + 1) + 65536 * Get(b, i + 2)
             + 16777216 * Get(b, i + 3)

\* the size bytes of b at off, as a buffer (pread)
Slice(b, off, size) ==
    LET dom == {a \in DOMAIN b : a >= off /\ a < off + size}
    IN  [i \in {a - off : a \in dom} |-> b[i + off]]

\* b with the size bytes at off replaced by the buffer buf (pwrite)
Put(b, off, size, buf) ==
    LET keep == {a \in DOMAIN b : a < off \/ a >= off + size}
        new  == {i + off : i \in {j \in DOMAIN buf : j < size}}
    IN  [a \in keep \cup new |-> IF a \in new THEN buf[a - off] ELSE b[a]]

\* memset(b + off, 0, n)
MemZero(b, off, n) ==
    [a \in {x \in DOMAIN b : x < off \/ x >= off + n} |-> b[a]]

\* store the n-byte little-endian value v at off
SetLE(b, off, n, v) ==
    LET nz == {k \in 0 .. n - 1 : ByteOf(v, k) # 0}
    IN  Put(b, off, n, [k \in nz |-> ByteOf(v, k)])

Min(S) == CHOOSE x \in S : \A y \in S : x <= y

\* --------------------------------------------------------- block store
BlockOff(block_no) == block_no * BLOCK_SIZE

read_block(d, block_no) == Slice(d, BlockOff(block_no), BLOCK_SIZE)

\* write_block storing only the non-zero bytes of buf
write_blockMerge(d, block_no, buf) ==
    [a \in DOMAIN d \cup {BlockOff(block_no) + i : i \in DOMAIN buf}
        |-> IF a - BlockOff(block_no) \in DOMAIN buf
            THEN buf[a - BlockOff(block_no)] ELSE d[a]]

write_block(d, block_no, buf) == Put(d, BlockOff(block_no), BLOCK_SIZE, buf)

JournalOff(offset) == JOURNAL_BLOCK_IDX * BLOCK_SIZE + offset

journal_read(d, offset, size) == Slice(d, JournalOff(offset), size)

journal_write(d, offset, buf, size) == Put(d, JournalOff(offset), size, buf)

\* ----------------------------------------------------------- allocators
BitSet(bitmap, index) == (Get(bitmap, index \div 8) \div (2 ^ (index % 8))) % 2 = 1

\* set_bitmap without the shift: bitmap[index / 8] |= 1
set_bitmapNoShift(bitmap, index) ==
    IF BitSet(bitmap, 8 * (index \div 8)) THEN bitmap
    ELSE SetLE(bitmap, index \div 8, 1, Get(bitmap, index \div 8) + 1)

set_bitmap(bitmap, index) ==
    IF BitSet(bitmap, index) THEN bitmap
    ELSE SetLE(bitmap, index \div 8, 1,
               Get(bitmap, index \div 8) + 2 ^ (index % 8))

MaxInodes == INODE_BLOCKS * (BLOCK_SIZE \div INODE_SIZE)

\* free_inode answering 0 where it has to answer -1
free_inodeZero(bmap) ==
    LET free == {i \in 0 .. MaxInodes - 1 : ~BitSet(bmap, i)}
    IN  IF free = {} THEN 0 ELSE Min(free)

\* for(i = lo; i <= hi; i++) if(test) return i; return -1;
\* with hits the indices at which the test succeeds: the first i in hits,
\* the test having failed at every i before it
FirstHit(lo, hi, hits) ==
    IF \E i \in lo .. hi : i \in hits
    THEN CHOOSE i \in lo .. hi : i \in hits /\ \A j \in lo .. i - 1 : j \notin hits
    ELSE -1

free_inode(bmap) ==
    FirstHit(0, MaxInodes - 1, {i \in 0 .. MaxInodes - 1 : ~BitSet(bmap, i)})

Slots == BLOCK_SIZE \div DIRENT_SIZE

\* free_dirent with its loop started at slot 1
free_direntFromOne(d) ==
    FirstHit(1, Slots - 1,
             {i \in 0 .. Slots - 1 : Get(d, i * DIRENT_SIZE + DIRENT_NAME) = 0})

free_dirent(d) ==
    FirstHit(0, Slots - 1,
             {i \in 0 .. Slots - 1 : Get(d, i * DIRENT_SIZE + DIRENT_NAME) = 0})

\* strncpy(dst + off, name, n): the bytes of name, then NULs up to n bytes
strncpy(b, off, name, n) ==
    LET len == IF Len(name) < n THEN Len(name) ELSE n
    IN  Put(b, off, n, [k \in 0 .. len - 1 |-> name[k + 1]])

\* ------------------------------------------------------- create_journal
\* the buffer buf moved k bytes up
Shift(buf, k) == [a \in {i + k : i \in DOMAIN buf} |-> buf[a - k]]

\* struct data_record {hdr = {REC_DATA, sizeof dr}, block_no, data = buf}
DataRecord(block_no, buf) ==
    SetLE(SetLE(SetLE(Shift(buf, RH_SIZE + 4), 0, 2, REC_DATA), 2, 2, DR_SIZE),
          RH_SIZE, 4, block_no)

\* a commit record that carries the type of a data record
CommitRecordAsData == SetLE(SetLE(Empty, 0, 2, REC_DATA), 2, 2, CR_SIZE)

\* struct commit_record {hdr = {REC_COMMIT, sizeof cr}}
CommitRecord == SetLE(SetLE(Empty, 0, 2, REC_COMMIT), 2, 2, CR_SIZE)

\* struct journal_header as bytes
HeaderBytes(jh) == SetLE(SetLE(Empty, 0, 4, jh.magic), 4, 4, jh.nbytes_used)

\* journal_read(fd, 0, &jh, sizeof(jh))
ReadHeader(d) ==
    LET b == journal_read(d, 0, JH_SIZE)
    IN  [magic |-> U32(b, 0), nbytes_used |-> U32(b, 4)]

InodesPerBlock == BLOCK_SIZE \div INODE_SIZE

\* the inode-table block image after lines 142-149: the new inode zeroed and
\* filled in, then the size of slot 0 OF THIS BLOCK raised to needed
NewInodeBlock(ino_blk, inode_idx, slot, now) ==
    LET at     == (inode_idx % InodesPerBlock) * INODE_SIZE
        zeroed == MemZero(ino_blk, at, INODE_SIZE)
        typed  == SetLE(SetLE(zeroed, at + INO_TYPE, 2, 1), at + INO_LINKS, 2, 1)
        timed  == SetLE(SetLE(typed, at + INO_MTIME, 4, now), at + INO_CTIME, 4, now)
        needed == (slot + 1) * DIRENT_SIZE
    IN  IF U32(timed, INO_SIZE) < needed
        THEN SetLE(timed, INO_SIZE, 4, needed)
        ELSE timed

\* the directory block image after lines 136-137
NewDirBlock(root_data, inode_idx, slot, file_name) ==
    strncpy(SetLE(root_data, slot * DIRENT_SIZE, 4, inode_idx),
            slot * DIRENT_SIZE + DIRENT_NAME, file_name, NAME_COPY)

\* create putting the magic into a header that lacks it, and no more
CreateHeaderOfKeepUsed(jh) ==
    IF jh.magic # JOURNAL_MAGIC
    THEN [magic |-> JOURNAL_MAGIC, nbytes_used |-> jh.nbytes_used]
    ELSE jh

\* the header create works with (line 153)
CreateHeaderOf(jh) ==
    IF jh.magic # JOURNAL_MAGIC
    THEN [magic |-> JOURNAL_MAGIC, nbytes_used |-> JH_SIZE]
    ELSE jh

\* create appending right after the header, whatever bytes-used says
StartOffsetAtHeaderEnd(jh) == JH_SIZE

\* where create appends its records (line 154)
StartOffset(jh) == jh.nbytes_used

Idle == [pc |-> "idle"]

\* lines 125-157: everything create_journal does before its first write.
\* The result is the frame of locals, or Idle when allocation is exhausted.
CreateFrame(d, file_name, now) ==
    LET ibmap     == read_block(d, INODE_BMAP_IDX)
        dbmap     == read_block(d, DATA_BMAP_IDX)
        root_data == read_block(d, DATA_START_IDX)
        inode_idx == free_inode(ibmap)
        slot      == free_dirent(root_data)
    IN  IF inode_idx < 0 \/ slot < 0 THEN Idle
        ELSE
        LET iblk_no == INODE_START_IDX + (inode_idx \div InodesPerBlock)
            jh      == CreateHeaderOf(ReadHeader(d))
        IN  [pc        |-> "c_data",
             inode_idx |-> inode_idx,
             slot      |-> slot,
             targets   |-> <<INODE_BMAP_IDX, DATA_BMAP_IDX, DATA_START_IDX, iblk_no>>,
             bufs      |-> <<set_bitmap(ibmap, inode_idx),
                             dbmap,
                             NewDirBlock(root_data, inode_idx, slot, file_name),
                             NewInodeBlock(read_block(d, iblk_no), inode_idx, slot, now)>>,
             jh        |-> jh,
             off       |-> StartOffset(jh),
             i         |-> 0]

\* create writing the header back with bytes-used as it was
ClosedHeaderStale(jh, off) == jh

\* the header create writes last (line 173)
ClosedHeader(jh, off) == [jh EXCEPT !.nbytes_used = off]

\* one write of create_journal (lines 159-174); f.pc says which
CreateStep(d, f) ==
    IF f.pc = "c_data"
    THEN [disk |-> journal_write(d, f.off,
                                 DataRecord(f.targets[f.i + 1], f.bufs[f.i + 1]), DR_SIZE),
          fr   |-> [f EXCEPT !.off = f.off + DR_SIZE,
                             !.i   = f.i + 1,
                             !.pc  = IF f.i + 1 < TX_BLOCKS THEN "c_data" ELSE "c_commit"]]
    ELSE IF f.pc = "c_commit"
    THEN [disk |-> journal_write(d, f.off, CommitRecord, CR_SIZE),
          fr   |-> [f EXCEPT !.off = f.off + CR_SIZE, !.pc = "c_header"]]
    ELSE [disk |-> journal_write(d, 0,
                                 HeaderBytes(ClosedHeader(f.jh, f.off)), JH_SIZE),
          fr   |-> Idle]

\* ------------------------------------------------------ install_journal
\* lines 183-187: the frame of locals after the header check, or Idle when
\* the function returns at line 185
InstallFrame(d, max_commits) ==
    LET jh == ReadHeader(d)
    IN  IF jh.magic # JOURNAL_MAGIC \/ jh.nbytes_used <= JH_SIZE THEN Idle
        ELSE [pc |-> "i_outer", max_commits |-> max_commits, jh |-> jh,
              off |-> JH_SIZE, committed |-> 0]

\* the cap test one off: committed <= max_commits
UnderCapOffByOne(committed, max_commits) == max_commits < 0 \/ committed <= max_commits

\* the cap test of the outer loop (line 188)
UnderCap(committed, max_commits) == max_commits < 0 \/ committed < max_commits

\* install writing the header back with bytes-used as it read it
ResetHeaderKeep(d, jh) == journal_write(d, 0, HeaderBytes(jh), JH_SIZE)

\* install zeroing bytes-used
ResetHeaderZero(d, jh) ==
    journal_write(d, 0, HeaderBytes([jh EXCEPT !.nbytes_used = 0]), JH_SIZE)

\* the header reset that ends install_journal (lines 212-213)
ResetHeader(d, jh) ==
    journal_write(d, 0, HeaderBytes([jh EXCEPT !.nbytes_used = JH_SIZE]), JH_SIZE)

\* struct rec_header read at journal offset o
ReadRec(d, o) ==
    LET b == journal_read(d, o, RH_SIZE)
    IN  [type |-> U16(b, 0), size |-> U16(b, 2)]

\* one step of install_journal (lines 188-213); f.pc says which
InstallStep(d, f) ==
    IF f.pc = "i_outer"
    THEN \* line 188, the test of the outer loop
         IF f.off < f.jh.nbytes_used /\ UnderCap(f.committed, f.max_commits)
         THEN [disk |-> d,
               fr   |-> [pc |-> "i_scan", max_commits |-> f.max_commits, jh |-> f.jh,
                         off |-> f.off, committed |-> f.committed,
                         tx_start |-> f.off, tx_off |-> f.off]]
         ELSE [disk |-> d,
               fr   |-> [pc |-> "i_reset", jh |-> f.jh, committed |-> f.committed]]
    ELSE IF f.pc = "i_scan"
    THEN \* lines 191-197, one turn of the scan loop
         IF f.tx_off < f.jh.nbytes_used
         THEN LET rh == ReadRec(d, f.tx_off)
              IN  IF rh.type = REC_COMMIT
                  THEN [disk |-> d,
                        fr   |-> [pc |-> "i_apply", max_commits |-> f.max_commits,
                                  jh |-> f.jh, off |-> f.off, committed |-> f.committed,
                                  tx_start |-> f.tx_start, tx_off |-> f.tx_off + rh.size,
                                  apply_off |-> f.tx_start]]
                  ELSE [disk |-> d, fr |-> [f EXCEPT !.tx_off = f.tx_off + rh.size]]
         ELSE [disk |-> d,
               fr   |-> [pc |-> "i_reset", jh |-> f.jh, committed |-> f.committed]]
    ELSE IF f.pc = "i_apply"
    THEN \* lines 199-210, one turn of the apply loop
         IF f.apply_off < f.tx_off
         THEN LET rh == ReadRec(d, f.apply_off)
              IN  IF rh.type = REC_DATA /\ rh.size # DR_SIZE
                  THEN \* line 204 reads rh.size bytes into a struct of DR_SIZE
                       \* bytes: past its end, or leaving part of it unset
                       [disk |-> d, fr |-> [pc |-> "undefined"]]
                  ELSE IF rh.type = REC_DATA
                  THEN LET dr == journal_read(d, f.apply_off, rh.size)
                       IN  [disk |-> write_block(d, U32(dr, RH_SIZE),
                                                 Slice(dr, RH_SIZE + 4, BLOCK_SIZE)),
                            fr   |-> [f EXCEPT !.apply_off = f.apply_off + rh.size]]
                  ELSE [disk |-> d, fr |-> [f EXCEPT !.apply_off = f.apply_off + rh.size]]
         ELSE [disk |-> d,
               fr   |-> [pc |-> "i_outer", max_commits |-> f.max_commits, jh |-> f.jh,
                         off |-> f.tx_off, committed |-> f.committed + 1]]
    ELSE \* lines 212-213
         [disk |-> ResetHeader(d, f.jh), fr |-> Idle]

CreatePcs == {"c_data", "c_commit", "c_header"}
InstallPcs == {"i_outer", "i_scan", "i_apply", "i_reset"}

\* run an operation to its end from frame f; term = FALSE when a step of the
\* install loop makes no progress (the loop never ends)
RECURSIVE RunFrom(_, _)
RunFrom(d, f) ==
    IF f.pc = "idle" THEN [term |-> TRUE, disk |-> d]
    ELSE IF f.pc = "undefined" THEN [term |-> FALSE, disk |-> d]
    ELSE LET s == IF f.pc \in CreatePcs THEN CreateStep(d, f) ELSE InstallStep(d, f)
         IN  IF s.disk = d /\ s.fr = f THEN [term |-> FALSE, disk |-> d]
             ELSE RunFrom(s.disk, s.fr)

\* a whole create_journal(file_name) at time now
CreateRun(d, file_name, now) == RunFrom(d, CreateFrame(d, file_name, now)).disk

\* a whole install_journal(max_commits)
InstallRun(d, max_commits) == RunFrom(d, InstallFrame(d, max_commits))

\* ---------------------------------------------------------------- inputs
\* file names given to create, as byte strings: "a"
Names == {<<97>>}

\* values of (uint32_t)time(NULL)
Times == {1700000000}

\* the max_commits of install_journal: -1 is what main passes
Caps == {-1, 1, 2}

\* operations started in one run of Spec
MaxOps == 4

\* operations started in one run of SpecOverflow: creates in a row, then install
MaxOpsOverflow == 5

\* file names of SpecNames: "a", "b", the empty name, a name of 28 bytes
AllNames == {<<97>>, <<98>>, <<>>, [i \in 1 .. 28 |-> 99]}

\* operations started in one run of SpecNames
MaxOpsNames == 4

\* crashes in one run of the model
MaxCrashes == 1

\* ------------------------------------------------------ formatted images
\* the directory inode tag (the code only ever writes 1 = file)
TYPE_DIR == 2

\* The image the tool is run on: bitmaps zeroed, root directory block empty,
\* inode 0 the root directory, journal region zeroed (header magic absent).
FormattedImage ==
    SetLE(SetLE(Empty, BlockOff(INODE_START_IDX) + INO_TYPE, 2, TYPE_DIR),
          BlockOff(INODE_START_IDX) + INO_LINKS, 2, 2)

\* name of the i-th file put on the image by Cycle: two letters, all different
NameOf(i) == <<97 + (i % 26), 65 + (i \div 26)>>

\* numbers of files on the image at which the step-by-step runs start
StartFiles == {0, 33, 64}

\* ------------------------------------------------------------ the machine
VARIABLES disk, fr, h

vars == <<disk, fr, h>>

NoCreate == [idx |-> -1, slot |-> -1, name |-> <<>>, now |-> 0, off |-> 0,
             magic |-> FALSE]

\* h is history: the program never reads it.
\*   files    Cycle steps taken        ops, crashes   operations begun, crashes
\*   kind, done, cap, pre, log   the operation begun last: which one, whether
\*            it returned, its max_commits, the image it started on, the
\*            journal offsets of the records install wrote to their blocks
\*   prev     kind and done of the operation before that
\*   cre      the last create that got past allocation: its inode, slot, name,
\*            time, the journal offset of its first record, and whether the
\*            header it read had the magic
\*   base, retry   the image at the start of the first of a run of installs
\*            that each but the last crashed; retry says the run has a crash
\*   stuck    a step of install left the image and all locals as they were
\*   norec    a create was begun right after a crash, with no install between
\*   nw       journal writes done so far by the create that is running
\*   batch    names of the creates that returned, past allocation, since the
\*            last install was begun
HInit == [files |-> 0, ops |-> 0, crashes |-> 0,
          kind |-> "none", done |-> TRUE, cap |-> 0, pre |-> Empty, log |-> <<>>,
          prev |-> [kind |-> "none", done |-> TRUE],
          cre |-> NoCreate, base |-> Empty, retry |-> FALSE, stuck |-> FALSE,
          norec |-> FALSE, nw |-> 0, batch |-> <<>>]

Init ==
    /\ disk = FormattedImage
    /\ fr = Idle
    /\ h = HInit

\* "create NameOf(i); install", each run to its end with nothing in between:
\* the way an image gets its first files
Cycle(now) ==
    /\ fr.pc = "idle"
    /\ h.ops = 0
    /\ h.files < MaxInodes
    /\ disk' = InstallRun(CreateRun(disk, NameOf(h.files), now), -1).disk
    /\ fr' = fr
    /\ h' = [h EXCEPT !.files = h.files + 1]

\* create_journal(file_name) up to its first write, or all of it when it
\* returns at line 133
CreateBegin(file_name, now) ==
    /\ fr.pc = "idle"
    /\ fr' = CreateFrame(disk, file_name, now)
    /\ disk' = disk
    /\ h' = [h EXCEPT !.ops = h.ops + 1, !.kind = "create", !.cap = 0,
                      !.done = (fr'.pc = "idle"), !.pre = disk, !.log = <<>>,
                      !.prev = [kind |-> h.kind, done |-> h.done],
                      !.cre = IF fr'.pc = "idle" THEN NoCreate
                              ELSE [idx |-> fr'.inode_idx, slot |-> fr'.slot,
                                    name |-> file_name, now |-> now, off |-> fr'.off,
                                    magic |-> ReadHeader(disk).magic = JOURNAL_MAGIC],
                      !.base = Empty, !.retry = FALSE,
                      !.norec = (h.norec \/ ~h.done), !.nw = 0,
                      !.batch = IF h.kind = "install" THEN <<>> ELSE h.batch]

\* the next journal_write of create_journal
CreateWrite ==
    /\ fr.pc \in CreatePcs
    /\ LET s == CreateStep(disk, fr)
       IN  /\ disk' = s.disk
           /\ fr' = s.fr
           /\ h' = [h EXCEPT !.done = (s.fr.pc = "idle"),
                             !.nw = IF s.fr.pc = "idle" THEN 0 ELSE h.nw + 1,
                             !.batch = IF s.fr.pc = "idle"
                                       THEN Append(h.batch, h.cre.name) ELSE h.batch]

\* install_journal(max_commits) up to the loop, or all of it when it returns
\* at line 185
InstallBegin(max_commits) ==
    /\ fr.pc = "idle"
    /\ fr' = InstallFrame(disk, max_commits)
    /\ disk' = disk
    /\ LET again == h.kind = "install" /\ ~h.done /\ h.cap = max_commits
       IN  h' = [h EXCEPT !.ops = h.ops + 1, !.kind = "install", !.cap = max_commits,
                          !.done = (fr'.pc = "idle"), !.pre = disk, !.log = <<>>,
                          !.prev = [kind |-> h.kind, done |-> h.done],
                          !.base = IF again THEN h.base ELSE disk,
                          !.retry = again]

\* the next step of install_journal
InstallWork ==
    /\ fr.pc \in InstallPcs
    /\ LET s == InstallStep(disk, fr)
       IN  /\ disk' = s.disk
           /\ fr' = s.fr
           /\ h' = [h EXCEPT !.done = (s.fr.pc = "idle"),
                             !.stuck = (s.fr = fr /\ s.disk = disk),
                             !.log = IF fr.pc = "i_apply" /\ s.fr.pc = "i_apply"
                                        /\ ReadRec(disk, fr.apply_off).type = REC_DATA
                                     THEN Append(h.log, fr.apply_off)
                                     ELSE h.log]

\* the process dies between two system calls
Crash ==
    /\ fr.pc \in CreatePcs \cup InstallPcs
    /\ h.crashes < MaxCrashes
    /\ fr' = Idle
    /\ disk' = disk
    /\ h' = [h EXCEPT !.crashes = h.crashes + 1, !.nw = 0]

\* the step-by-step runs start on an image with one of StartFiles files
Started == h.files \in StartFiles

Next ==
    \/ \E t \in Times : Cycle(t)
    \/ Started /\ h.ops < MaxOps /\ \E n \in Names, t \in Times : CreateBegin(n, t)
    \/ CreateWrite
    \/ Started /\ h.ops < MaxOps /\ \E c \in Caps : InstallBegin(c)
    \/ InstallWork
    \/ Crash

Spec == Init /\ [][Next]_vars

\* what main can do, with no crash, on the formatted image: long runs of
\* creates without an install
NextOverflow ==
    \/ h.ops < MaxOpsOverflow /\ \E n \in Names, t \in Times : CreateBegin(n, t)
    \/ CreateWrite
    \/ h.ops < MaxOpsOverflow /\ InstallBegin(-1)
    \/ InstallWork

SpecOverflow == Init /\ [][NextOverflow]_vars

\* operations started in one run of SpecCrashOverflow
MaxOpsCrash == 6

\* long runs of creates without an install, and a crash
NextCrashOverflow ==
    \/ h.ops < MaxOpsCrash /\ \E n \in Names, t \in Times : CreateBegin(n, t)
    \/ CreateWrite
    \/ h.ops < MaxOpsCrash /\ InstallBegin(-1)
    \/ InstallWork
    \/ Crash

SpecCrashOverflow == Init /\ [][NextCrashOverflow]_vars

\* what main can do, with no crash, on the formatted image, over more names
NextNames ==
    \/ h.ops < MaxOpsNames /\ \E n \in AllNames, t \in Times : CreateBegin(n, t)
    \/ CreateWrite
    \/ h.ops < MaxOpsNames /\ InstallBegin(-1)
    \/ InstallWork

SpecNames == Init /\ [][NextNames]_vars

\* inode bitmaps given to free_inode: full bytes, then one byte b
FullBytes == {0, 1, 3, 7}
LastBytes == {0, 1, 127, 239, 254, 255}
BitmapOf(k, b) ==
    [a \in (0 .. k - 1) \cup (IF b # 0 THEN {k} ELSE {}) |-> IF a < k THEN 255 ELSE b]
AllocBitmaps == {BitmapOf(k, b) : k \in FullBytes, b \in LastBytes}

\* directory blocks given to free_dirent: the slots of U hold a name; in
\* DirStale slot 0 holds an inode number and name bytes after a NUL first byte
DirOf(U) == [a \in {s * DIRENT_SIZE + DIRENT_NAME : s \in U} |-> 97]
DirStale == SetLE(SetLE(DirOf({1}), 0, 4, 5), DIRENT_NAME + 1, 1, 98)
AllocDirs ==
    {DirOf(U) : U \in {{}, {0}, {1}, {0, 1}, {0, 2}, 0 .. Slots - 2, 0 .. Slots - 1,
                       1 .. Slots - 1, (0 .. Slots - 1) \ {Slots \div 2}}}
    \cup {DirStale}

\* creates started in one run of SpecAlloc
MaxOpsAlloc == 1

\* create on images whose inode bitmap and root directory block hold any of
\* the patterns above
InitAlloc ==
    /\ disk \in {write_block(write_block(FormattedImage, INODE_BMAP_IDX, bm),
                              DATA_START_IDX, dr) : bm \in AllocBitmaps, dr \in AllocDirs}
    /\ fr = Idle
    /\ h = HInit

NextAlloc ==
    \/ h.ops < MaxOpsAlloc /\ \E n \in Names, t \in Times : CreateBegin(n, t)
    \/ CreateWrite

SpecAlloc == InitAlloc /\ [][NextAlloc]_vars

TypeOK == fr.pc \in {"idle", "undefined"} \cup CreatePcs \cup InstallPcs

\* install never reads a data record whose size is not that of the struct
Defined == fr.pc # "undefined"

\* ---------------------------------------------------------- observations
\* the bytes outside the journal region
RealPart(d) ==
    [a \in {x \in DOMAIN d : x < BlockOff(JOURNAL_BLOCK_IDX)
                              \/ x >= BlockOff(INODE_BMAP_IDX)} |-> d[a]]

MagicOK(d) == ReadHeader(d).magic = JOURNAL_MAGIC

BytesUsed(d) == ReadHeader(d).nbytes_used

\* the journal holds no transaction
JournalEmpty(d) == ~MagicOK(d) \/ BytesUsed(d) <= JH_SIZE

\* bytes of one transaction of create: four data records and a commit record
TxSize == TX_BLOCKS * DR_SIZE + CR_SIZE

\* transactions between the header and bytes-used
TxCount(d) == IF JournalEmpty(d) THEN 0 ELSE (BytesUsed(d) - JH_SIZE) \div TxSize

\* journal offset of data record r of transaction t, both counted from 0
RecOff(t, r) == JH_SIZE + t * TxSize + r * DR_SIZE

\* bit i of the inode bitmap block
InodeBit(d, i) ==
    (Get(d, BlockOff(INODE_BMAP_IDX) + (i \div 8)) \div (2 ^ (i % 8))) % 2 = 1

\* slot s of the root directory block
SlotAt(s) == BlockOff(DATA_START_IDX) + s * DIRENT_SIZE

SlotUsed(d, s) == Get(d, SlotAt(s) + DIRENT_NAME) # 0

SlotInode(d, s) == U32(d, SlotAt(s))

\* inode i of the inode table
InodeAt(i) == BlockOff(INODE_START_IDX) + i * INODE_SIZE

RootSize(d) == U32(d, InodeAt(0) + INO_SIZE)

AllBitsSet(d) == \A i \in 0 .. MaxInodes - 1 : InodeBit(d, i)

AllSlotsUsed(d) == \A s \in 0 .. Slots - 1 : SlotUsed(d, s)

\* the first min(len, 27) bytes of a name, as strncpy leaves them in 27 bytes
StoredName(name) ==
    [k \in 0 .. (IF Len(name) < NAME_COPY THEN Len(name) ELSE NAME_COPY) - 1
        |-> name[k + 1]]

\* the image after the data records at the journal offsets offs of image j
\* are written, in that order, to their target blocks
RECURSIVE ApplyRecs(_, _, _)
ApplyRecs(d, j, offs) ==
    IF offs = <<>> THEN d
    ELSE LET rec == journal_read(j, Head(offs), DR_SIZE)
         IN  ApplyRecs(Put(d, BLOCK_SIZE * U32(rec, RH_SIZE), BLOCK_SIZE,
                           Slice(rec, RH_SIZE + 4, BLOCK_SIZE)),
                       j, Tail(offs))

InLog(o) == \E i \in 1 .. Len(h.log) : h.log[i] = o

\* ----------------------------------------------------------------- claims

\* C1: a step of create changes no byte outside the journal region: the inode
\* bitmap, the data bitmap, the inode table and the data blocks are the same
\* after it as before it.
C1_CreateWritesOnlyJournal ==
    [][fr.pc \in CreatePcs => RealPart(disk') = RealPart(disk)]_vars

\* C2: atomicity of create under crash.  Until the header write of a create
\* lands, also after a crash, the header and the used region are as before
\* the create; an install that follows the crashed create writes none of its
\* records; an uncapped install that follows a create that returned writes
\* all four of its records; and an install that has returned has written, of
\* each transaction, all four data records or none.
C2_Atomic ==
    /\ (h.kind = "create" /\ ~h.done)
         => journal_read(disk, 0, h.cre.off) = journal_read(h.pre, 0, h.cre.off)
    /\ (h.kind = "install" /\ h.prev.kind = "create" /\ ~h.prev.done)
         => \A i \in 1 .. Len(h.log) : h.log[i] < h.cre.off
    /\ (h.kind = "install" /\ h.done /\ h.cap < 0 /\ h.prev.kind = "create"
          /\ h.prev.done /\ h.cre # NoCreate)
         => \A r \in 0 .. TX_BLOCKS - 1 : InLog(h.cre.off + r * DR_SIZE)
    /\ (h.kind = "install" /\ h.done)
         => \A i \in 1 .. Len(h.log) :
               LET t == (h.log[i] - JH_SIZE) \div TxSize
               IN  \A r \in 0 .. TX_BLOCKS - 1 : InLog(RecOff(t, r))

\* a create crashed after writing records, and the install that followed
\* applied the transactions before it
C2_Witness ==
    /\ h.kind = "install" /\ h.done /\ Len(h.log) > 0
    /\ h.prev.kind = "create" /\ ~h.prev.done
    /\ ReadRec(h.pre, h.cre.off).type = REC_DATA

\* C3: create on an empty journal, then install: the bitmap bit of the new
\* inode is set, the slot chosen by create holds {inode, name}, the inode table
\* holds the new inode (file, one link, ctime = mtime = the time of the call)
\* and bytes-used is the header size.
C3_CreateThenInstall ==
    (h.kind = "install" /\ h.done /\ h.prev.kind = "create" /\ h.prev.done
       /\ h.cre # NoCreate /\ h.cre.off = JH_SIZE)
    => /\ InodeBit(disk, h.cre.idx)
       /\ SlotInode(disk, h.cre.slot) = h.cre.idx
       /\ Slice(disk, SlotAt(h.cre.slot) + DIRENT_NAME, NAME_COPY) = StoredName(h.cre.name)
       /\ U16(disk, InodeAt(h.cre.idx) + INO_TYPE) = 1
       /\ U16(disk, InodeAt(h.cre.idx) + INO_LINKS) = 1
       /\ U32(disk, InodeAt(h.cre.idx) + INO_CTIME) = h.cre.now
       /\ U32(disk, InodeAt(h.cre.idx) + INO_MTIME) = h.cre.now
       /\ MagicOK(disk) /\ BytesUsed(disk) = JH_SIZE

C3_Witness ==
    /\ h.kind = "install" /\ h.done /\ h.prev.kind = "create" /\ h.prev.done
    /\ h.cre # NoCreate /\ h.cre.off = JH_SIZE
    /\ ~InodeBit(h.pre, h.cre.idx)

\* C4 as stated: after two installs in a row the real blocks are as after the
\* first, bytes-used is the header size after each of the two, and the second
\* wrote no block.
C4_AsStated ==
    (h.kind = "install" /\ h.done /\ h.prev.kind = "install" /\ h.prev.done)
    => /\ RealPart(disk) = RealPart(h.pre)
       /\ BytesUsed(h.pre) = JH_SIZE
       /\ BytesUsed(disk) = JH_SIZE
       /\ h.log = <<>>

\* C4, amended: after two installs in a row the real blocks are as after the
\* first and the second wrote nothing at all; bytes-used is the header size
\* after each of the two when the header's magic is valid (a header without
\* the magic is left as it is).
C4_IdempotentReplay ==
    (h.kind = "install" /\ h.done /\ h.prev.kind = "install" /\ h.prev.done)
    => /\ disk = h.pre
       /\ h.log = <<>>
       /\ MagicOK(disk) => BytesUsed(h.pre) = JH_SIZE /\ BytesUsed(disk) = JH_SIZE

\* two installs in a row, the first of which applied a transaction
C4_Witness ==
    /\ h.kind = "install" /\ h.done /\ h.prev.kind = "install" /\ h.prev.done
    /\ MagicOK(disk)
    /\ h.cre # NoCreate

\* C5: an install that crashed and is run again to its end leaves the real
\* blocks as one uninterrupted install of the same journal leaves them, and
\* bytes-used at the header size; and writing a data record to its block once
\* more changes nothing.
C5_RetrySafe ==
    /\ (h.kind = "install" /\ h.done /\ h.retry)
         => LET r == InstallRun(h.base, h.cap)
            IN  r.term => /\ RealPart(disk) = RealPart(r.disk)
                          /\ BytesUsed(disk) = JH_SIZE
    /\ (h.kind = "install" /\ Len(h.log) > 0)
         => ApplyRecs(disk, disk, <<h.log[Len(h.log)]>>) = disk

\* an install crashed after writing some blocks, and the retry wrote more
C5_Witness ==
    /\ h.kind = "install" /\ h.done /\ h.retry
    /\ RealPart(h.pre) # RealPart(h.base)
    /\ RealPart(disk) # RealPart(h.pre)
    /\ TxCount(h.base) >= 2

\* C6: create on an image whose inode bitmap is full, or whose root directory
\* block has no empty slot, writes nothing: the whole image is as before.
C6_ExhaustedIsNoOp ==
    (h.kind = "create" /\ (AllBitsSet(h.pre) \/ AllSlotsUsed(h.pre)))
    => disk = h.pre /\ fr.pc = "idle" /\ h.done

C6_Witness ==
    h.kind = "create" /\ AllBitsSet(h.pre) /\ h.done /\ fr.pc = "idle"

\* highest used slot of the root directory block, -1 when there is none
HighestSlot(d) ==
    LET used == {s \in 0 .. Slots - 1 : SlotUsed(d, s)}
    IN  IF used = {} THEN -1 ELSE CHOOSE s \in used : \A u \in used : u <= s

\* C7: after N runs of "create, install" with different names the size of
\* the root inode is (highest used slot + 1) * sizeof(struct dirent).
C7_RootSizeFollowsSlots ==
    h.ops = 0 => RootSize(disk) = (HighestSlot(disk) + 1) * DIRENT_SIZE

\* the data records of the first c transactions, in journal order
FirstRecs(c) ==
    [i \in 1 .. TX_BLOCKS * c |-> RecOff((i - 1) \div TX_BLOCKS, (i - 1) % TX_BLOCKS)]

\* C8: install with a cap c on a journal of k > c transactions writes the
\* data records of the first c transactions, in journal order, and no other;
\* the real blocks end as those writes leave them and bytes-used ends at the
\* header size.
C8_CappedInstall ==
    (h.kind = "install" /\ h.done /\ h.cap > 0 /\ TxCount(h.pre) > h.cap)
    => /\ h.log = FirstRecs(h.cap)
       /\ RealPart(disk) = RealPart(ApplyRecs(h.pre, h.pre, FirstRecs(h.cap)))
       /\ BytesUsed(disk) = JH_SIZE

\* the spec's case: three transactions, cap 1
C8_Witness ==
    h.kind = "install" /\ h.done /\ h.cap = 1 /\ TxCount(h.pre) = 3

\* C9: when the journal is empty and no operation is running, and every crash
\* was followed by an install before the next create, inode bitmap bit i is
\* set exactly when a used slot of the root directory holds i.
C9_BitmapMatchesDirectory ==
    (fr.pc = "idle" /\ JournalEmpty(disk) /\ ~h.norec)
    => \A i \in 0 .. MaxInodes - 1 :
          InodeBit(disk, i)
          <=> \E s \in 0 .. Slots - 1 : SlotUsed(disk, s) /\ SlotInode(disk, s) = i

\* C10: every step of install makes progress: none leaves the image and the
\* locals of install as they were (such a step repeats for ever).
C10_InstallAdvances == ~h.stuck

\* the used region of the journal of d is whole transactions of create: four
\* data records and a commit record each
AllCommitted(d) ==
    /\ ~JournalEmpty(d)
    /\ BytesUsed(d) = JH_SIZE + TxCount(d) * TxSize
    /\ \A t \in 0 .. TxCount(d) - 1 :
          /\ \A r \in 0 .. TX_BLOCKS - 1 :
                ReadRec(d, RecOff(t, r)) = [type |-> REC_DATA, size |-> DR_SIZE]
          /\ ReadRec(d, RecOff(t, TX_BLOCKS)) = [type |-> REC_COMMIT, size |-> CR_SIZE]

\* block_no and data[] of the data record at journal offset o
RecTarget(d, o) == U32(journal_read(d, o, DR_SIZE), RH_SIZE)

RecImage(d, o) == Slice(journal_read(d, o, DR_SIZE), RH_SIZE + 4, BLOCK_SIZE)

\* the blocks of the image outside the journal region
RealBlocks == {0} \cup (INODE_BMAP_IDX .. TOTAL_BLOCKS - 1)

\* positions in offs of the records of journal j that target block b
Hits(j, offs, b) == {i \in 1 .. Len(offs) : RecTarget(j, offs[i]) = b}

Max(S) == CHOOSE x \in S : \A y \in S : y <= x

\* C11: when an uncapped install of a journal of whole transactions returns,
\* it has written the data records of all of them in journal order, each real
\* block some record targets holds the image of the last such record, and
\* each real block no record targets is as before.
C11_ReplayResult ==
    (h.kind = "install" /\ h.done /\ h.cap < 0 /\ AllCommitted(h.pre))
    => LET offs == FirstRecs(TxCount(h.pre))
       IN  /\ h.log = offs
           /\ \A b \in RealBlocks :
                 read_block(disk, b) =
                    IF Hits(h.pre, offs, b) = {} THEN read_block(h.pre, b)
                    ELSE RecImage(h.pre, offs[Max(Hits(h.pre, offs, b))])

\* two transactions whose records for the root directory block differ were
\* installed
C11_Witness ==
    /\ h.kind = "install" /\ h.done /\ h.cap < 0 /\ AllCommitted(h.pre)
    /\ TxCount(h.pre) >= 2
    /\ RecTarget(h.pre, RecOff(0, 2)) = DATA_START_IDX
    /\ RecTarget(h.pre, RecOff(1, 2)) = DATA_START_IDX
    /\ RecImage(h.pre, RecOff(0, 2)) # RecImage(h.pre, RecOff(1, 2))
    /\ read_block(disk, DATA_START_IDX) # read_block(h.pre, DATA_START_IDX)

\* transaction t of the journal of d is four data records and a commit record
CompleteTx(d, t) ==
    /\ \A r \in 0 .. TX_BLOCKS - 1 :
          ReadRec(d, RecOff(t, r)) = [type |-> REC_DATA, size |-> DR_SIZE]
    /\ ReadRec(d, RecOff(t, TX_BLOCKS)) = [type |-> REC_COMMIT, size |-> CR_SIZE]

\* the used region of the journal of d is whole transactions, then four data
\* records with no commit record after them before bytes-used
IncompleteTrailing(d) ==
    /\ ~JournalEmpty(d)
    /\ BytesUsed(d) = JH_SIZE + TxCount(d) * TxSize
    /\ \A t \in 0 .. TxCount(d) - 2 : CompleteTx(d, t)
    /\ \A r \in 0 .. TX_BLOCKS - 1 :
          ReadRec(d, RecOff(TxCount(d) - 1, r)) = [type |-> REC_DATA, size |-> DR_SIZE]
    /\ ReadRec(d, RecOff(TxCount(d) - 1, TX_BLOCKS)).type # REC_COMMIT

\* C12: an uncapped install of a journal that ends with data records without
\* a commit record writes no record of that last transaction, does not stay
\* in its scan for ever, and has, when it returns, written the data records
\* of all transactions before the last, in journal order.
C12_IncompleteTrailing ==
    (h.kind = "install" /\ h.cap < 0 /\ IncompleteTrailing(h.pre))
    => /\ \A i \in 1 .. Len(h.log) : h.log[i] < RecOff(TxCount(h.pre) - 1, 0)
       /\ ~(fr.pc \in InstallPcs /\ h.stuck)
       /\ h.done => h.log = FirstRecs(TxCount(h.pre) - 1)

\* the bytes-used a create starts from: the header size when the header of d
\* has no valid magic
OldUsed(d) == IF MagicOK(d) THEN BytesUsed(d) ELSE JH_SIZE

\* d and e hold the same bytes outside the size bytes at journal offset o
SameOutside(d, e, o, size) ==
    \A a \in DOMAIN d \cup DOMAIN e :
       (a < JournalOff(o) \/ a >= JournalOff(o) + size) => Get(d, a) = Get(e, a)

\* img is the block pre with the size bytes at off replaced
SameBut(img, pre, off, size) ==
    \A a \in DOMAIN img \cup DOMAIN pre :
       (a < off \/ a >= off + size) => Get(img, a) = Get(pre, a)

\* block number the k-th data record of a create for inode idx must carry
TargetOf(k, idx) ==
    IF k = 0 THEN INODE_BMAP_IDX
    ELSE IF k = 1 THEN DATA_BMAP_IDX
    ELSE IF k = 2 THEN DATA_START_IDX
    ELSE INODE_START_IDX + (idx \div InodesPerBlock)

\* img is the block numbered TargetOf(k, c.idx) of image d after the changes
\* the create c makes to it
PostImage(img, d, k, c) ==
    LET pre == read_block(d, TargetOf(k, c.idx))
    IN  IF k = 0
        THEN /\ SameBut(img, pre, c.idx \div 8, 1)
             /\ BitSet(img, c.idx)
             /\ \A j \in 0 .. 7 : j # c.idx % 8 =>
                   (BitSet(img, 8 * (c.idx \div 8) + j)
                    <=> BitSet(pre, 8 * (c.idx \div 8) + j))
        ELSE IF k = 1
        THEN img = pre
        ELSE IF k = 2
        THEN /\ SameBut(img, pre, c.slot * DIRENT_SIZE, DIRENT_NAME + NAME_COPY)
             /\ U32(img, c.slot * DIRENT_SIZE) = c.idx
             /\ Slice(img, c.slot * DIRENT_SIZE + DIRENT_NAME, NAME_COPY)
                   = StoredName(c.name)
        ELSE LET at == (c.idx % InodesPerBlock) * INODE_SIZE
             IN  /\ \A a \in DOMAIN img \cup DOMAIN pre :
                       (a < at \/ a >= at + INODE_SIZE)
                        /\ (a < INO_SIZE \/ a >= INO_SIZE + 4)
                       => Get(img, a) = Get(pre, a)
                 /\ U16(img, at + INO_TYPE) = 1
                 /\ U16(img, at + INO_LINKS) = 1
                 /\ U32(img, at + INO_CTIME) = c.now
                 /\ U32(img, at + INO_MTIME) = c.now

\* C13: the journal writes of a create that got past allocation are, in this
\* order: the data records for the inode bitmap block, the data bitmap block,
\* the root directory block and the inode table block of the new inode, each
\* with the whole image of its block after the create's changes, laid back to
\* back from the old bytes-used; the commit record right after them; and
\* last the header, with bytes-used = old bytes-used + 4 data records + 1
\* commit record.  Each write changes no other byte, and the create returns
\* with the header write.
C13_WriteOrder ==
    [][(fr.pc \in CreatePcs /\ h'.crashes = h.crashes)
       => LET old == OldUsed(h.pre)
              o   == old + h.nw * DR_SIZE
          IN  IF h.nw < TX_BLOCKS
              THEN /\ SameOutside(disk', disk, o, DR_SIZE)
                   /\ ReadRec(disk', o) = [type |-> REC_DATA, size |-> DR_SIZE]
                   /\ RecTarget(disk', o) = TargetOf(h.nw, h.cre.idx)
                   /\ PostImage(RecImage(disk', o), h.pre, h.nw, h.cre)
                   /\ fr'.pc \in CreatePcs
              ELSE IF h.nw = TX_BLOCKS
              THEN /\ SameOutside(disk', disk, o, CR_SIZE)
                   /\ ReadRec(disk', o) = [type |-> REC_COMMIT, size |-> CR_SIZE]
                   /\ fr'.pc \in CreatePcs
              ELSE /\ SameOutside(disk', disk, 0, JH_SIZE)
                   /\ MagicOK(disk')
                   /\ BytesUsed(disk') = old + TX_BLOCKS * DR_SIZE + CR_SIZE
                   /\ fr'.pc = "idle" /\ h'.done]_vars

\* a create that appended after an earlier transaction has returned
C13_Witness ==
    /\ h.kind = "create" /\ h.done /\ h.cre # NoCreate /\ fr.pc = "idle"
    /\ OldUsed(h.pre) > JH_SIZE
    /\ BytesUsed(disk) = OldUsed(h.pre) + TxSize

\* C14: the inode-table image logged by a create that returned differs from
\* the block it was read from only in the slot of the new inode, which is a
\* file with one link, size 0, all direct pointers 0 and ctime = mtime, and in
\* the size field of inode 0, the root inode.
C14_InodeTableFrame ==
    (h.kind = "create" /\ h.done /\ h.cre # NoCreate)
    => LET blk == INODE_START_IDX + (h.cre.idx \div InodesPerBlock)
           img == RecImage(disk, OldUsed(h.pre) + (TX_BLOCKS - 1) * DR_SIZE)
           pre == read_block(h.pre, blk)
           at  == (h.cre.idx % InodesPerBlock) * INODE_SIZE
       IN  /\ \A a \in DOMAIN img \cup DOMAIN pre :
                 (a < at \/ a >= at + INODE_SIZE)
                  /\ ~(blk = INODE_START_IDX /\ a >= INO_SIZE /\ a < INO_SIZE + 4)
                 => Get(img, a) = Get(pre, a)
           /\ U16(img, at + INO_TYPE) = 1
           /\ U16(img, at + INO_LINKS) = 1
           /\ U32(img, at + INO_SIZE) = 0
           /\ \A a \in at + INO_DIRECT .. at + INO_CTIME - 1 : Get(img, a) = 0
           /\ U32(img, at + INO_CTIME) = U32(img, at + INO_MTIME)

\* C15: install on a header without the magic returns at once and writes
\* nothing; a create on such a header that got past allocation leaves, when
\* it returns, a header with the magic and bytes-used = header size + one
\* transaction, and that transaction whole at journal offset header size; and
\* the install that follows writes the four data records of that transaction
\* and no other.
C15_InvalidMagicIsEmpty ==
    /\ (h.kind = "install" /\ ~MagicOK(h.pre))
         => disk = h.pre /\ h.done /\ fr.pc = "idle" /\ h.log = <<>>
    /\ (h.kind = "create" /\ h.done /\ h.cre # NoCreate /\ ~MagicOK(h.pre))
         => /\ MagicOK(disk)
            /\ BytesUsed(disk) = JH_SIZE + TxSize
            /\ CompleteTx(disk, 0)
            /\ SameOutside(disk, h.pre, 0, JH_SIZE + TxSize)
    /\ (h.kind = "install" /\ h.done /\ h.prev.kind = "create" /\ h.prev.done
          /\ h.cre # NoCreate /\ ~h.cre.magic)
         => /\ h.log = FirstRecs(1)
            /\ RealPart(disk) = RealPart(ApplyRecs(h.pre, h.pre, FirstRecs(1)))

\* an install on a header without the magic, then a create, then an install
\* that changed real blocks
C15_Witness ==
    /\ h.kind = "install" /\ h.done /\ h.prev.kind = "create" /\ h.prev.done
    /\ h.cre # NoCreate /\ ~h.cre.magic
    /\ h.ops = 3
    /\ RealPart(disk) # RealPart(h.pre)

\* C16: in every state, a journal header with the magic has bytes-used of at
\* least the header size; when install has returned such a header has
\* bytes-used equal to the header size; and when a create that got past
\* allocation has returned the header has the magic and bytes-used is
\* greater than before the create.
C16_HeaderInvariant ==
    /\ MagicOK(disk) => BytesUsed(disk) >= JH_SIZE
    /\ (h.kind = "install" /\ h.done /\ MagicOK(disk)) => BytesUsed(disk) = JH_SIZE
    /\ (h.kind = "create" /\ h.done /\ h.cre # NoCreate)
         => MagicOK(disk) /\ BytesUsed(disk) > BytesUsed(h.pre)

\* after a crash, an install of two transactions or more has returned
C16_Witness ==
    /\ h.kind = "install" /\ h.done /\ h.crashes = 1
    /\ MagicOK(h.pre) /\ BytesUsed(h.pre) > JH_SIZE + TxSize
    /\ BytesUsed(disk) = JH_SIZE

\* smallest member of S, -1 when S is empty
LowestOr(S) == IF S = {} THEN -1 ELSE Min(S)

\* C17: free_inode returns the smallest index of 0 .. MaxInodes - 1 whose
\* bit is 0, or -1 when there is none; free_dirent returns the smallest slot
\* whose first name byte is 0, or -1 when there is none; a create that is
\* given both works with exactly these two, and any other returns with the
\* image as it was.  The two block images are, but for the create's own
\* changes made after the calls, as they were read.
C17_LowestIndex ==
    h.kind = "create"
    => LET ibmap == read_block(h.pre, INODE_BMAP_IDX)
           root  == read_block(h.pre, DATA_START_IDX)
           fi    == LowestOr({i \in 0 .. MaxInodes - 1 :
                                (Get(ibmap, i \div 8) \div (2 ^ (i % 8))) % 2 = 0})
           fd    == LowestOr({s \in 0 .. Slots - 1 : ~SlotUsed(h.pre, s)})
       IN  /\ free_inode(ibmap) = fi
           /\ free_dirent(root) = fd
           /\ IF fi >= 0 /\ fd >= 0
              THEN /\ h.cre.idx = fi /\ h.cre.slot = fd
                   /\ fr.pc \in CreatePcs
                        => /\ PostImage(fr.bufs[1], h.pre, 0, h.cre)
                           /\ PostImage(fr.bufs[3], h.pre, 2, h.cre)
              ELSE h.cre = NoCreate /\ disk = h.pre /\ h.done

\* the bitmap has a set bit above the index returned, the directory a used
\* slot above the slot returned, and neither is the first
C17_Witness ==
    /\ h.kind = "create" /\ h.cre # NoCreate
    /\ h.cre.idx > 0 /\ h.cre.slot > 0
    /\ InodeBit(h.pre, h.cre.idx + 1)
    /\ SlotUsed(h.pre, h.cre.slot + 1)

\* slots of the root directory of d that hold the name as create stores it
EntriesOf(d, name) ==
    {s \in 0 .. Slots - 1 :
        SlotUsed(d, s) /\ Slice(d, SlotAt(s) + DIRENT_NAME, NAME_COPY) = StoredName(name)}

\* C18: after k >= 2 creates with different non-empty names, run with no
\* install between them on an empty journal that has room for them, and an
\* uncapped install, the root directory has an entry for each of the k
\* names, these entries hold k different inode numbers, and the bitmap bit of
\* each of them is set.
C18_NoLostCreates ==
    (/\ h.kind = "install" /\ h.done /\ h.cap < 0
     /\ Len(h.batch) >= 2
     /\ \A i, j \in 1 .. Len(h.batch) :
           Len(h.batch[i]) > 0 /\ (i # j => h.batch[i] # h.batch[j])
     /\ BytesUsed(h.pre) = JH_SIZE + Len(h.batch) * TxSize
     /\ BytesUsed(h.pre) <= JOURNAL_BLOCKS * BLOCK_SIZE)
    => LET found == UNION {EntriesOf(disk, h.batch[i]) : i \in 1 .. Len(h.batch)}
       IN  /\ \A i \in 1 .. Len(h.batch) : EntriesOf(disk, h.batch[i]) # {}
           /\ Cardinality({SlotInode(disk, s) : s \in found}) >= Len(h.batch)
           /\ \A s \in found : InodeBit(disk, SlotInode(disk, s))

\* C19: from the formatted image on, no create is given inode 0, and inode 0
\* keeps the type and the link count it has on the formatted image.
C19_RootInodePreserved ==
    /\ h.cre.idx # 0
    /\ U16(disk, InodeAt(0) + INO_TYPE) = U16(FormattedImage, InodeAt(0) + INO_TYPE)
    /\ U16(disk, InodeAt(0) + INO_LINKS) = U16(FormattedImage, InodeAt(0) + INO_LINKS)

\* C20: when one create, with any name, and the install after it have
\* returned, the slot the create wrote has a first name byte that is not 0
\* and holds the first min(len, 27) bytes of the name followed by NULs, and
\* the next create is given a higher slot (or none, the block being full).
C20_SlotConsumed ==
    (/\ h.kind = "install" /\ h.done /\ h.cap < 0
     /\ h.prev.kind = "create" /\ h.prev.done /\ h.cre # NoCreate
     /\ h.batch = <<h.cre.name>>
     /\ BytesUsed(h.pre) = JH_SIZE + TxSize)
    => LET next == free_dirent(read_block(disk, DATA_START_IDX))
       IN  /\ SlotUsed(disk, h.cre.slot)
           /\ Slice(disk, SlotAt(h.cre.slot) + DIRENT_NAME, DIRENT_SIZE - DIRENT_NAME)
                 = StoredName(h.cre.name)
           /\ next = -1 \/ next > h.cre.slot

====
